---- MODULE Spec2Model ----
(***************************************************************************)
(* Onestop entities (src/onestop/entities.py): identifier generation, the  *)
(* parent/child entity graph, provenance lists, GTFS ingestion and the     *)
(* GeoJSON round trip of an operator.                                      *)
(*                                                                         *)
(* Python strings are sequences of one-character strings.  An unset        *)
(* _onestop (None) is the empty sequence: onestop() tests it for truth.    *)
(* Objects live in `heap`, a sequence of records; an object is its index,  *)
(* which is Python's object identity (the classes define no __eq__).       *)
(***************************************************************************)
EXTENDS Integers, Sequences, FiniteSets, TLC

VARIABLES
  heap,          \* every entity constructed so far
  pc,            \* where the run is: see Init
  ret,           \* the last call: its name, receiver, argument and outcome
  gtfs_stops,    \* from_gtfs: the stop records read so far (with _onestop_parent)
  gtfs_routes,   \* from_gtfs: the route records read so far
  stops,         \* from_gtfs: the local dict stops (key -> entity)
  routes,        \* from_gtfs: the local dict routes (key -> entity)
  route_counter, \* from_gtfs: the local route_counter
  doc,           \* the output of OnestopOperator.json()
  rebuilt        \* the operator returned by OnestopOperator.from_json (0: none)

vars == <<heap, pc, ret, gtfs_stops, gtfs_routes, stops, routes,
          route_counter, doc, rebuilt>>

---------------------------------------------------------------------------
(* Characters and strings *)

UpperCase == <<"A","B","C","D","E","F","G","H","I","J","K","L","M",
               "N","O","P","Q","R","S","T","U","V","W","X","Y","Z">>
LowerCase == <<"a","b","c","d","e","f","g","h","i","j","k","l","m",
               "n","o","p","q","r","s","t","u","v","w","x","y","z">>
Digits == {"0","1","2","3","4","5","6","7","8","9"}

Range(s) == {s[i] : i \in DOMAIN s}

Letters == Range(UpperCase) \cup Range(LowerCase)
ToLower == [c \in Range(UpperCase) |->
              LowerCase[CHOOSE i \in DOMAIN UpperCase : UpperCase[i] = c]]

\* str.lower() on one character
Lower(c) == IF c \in DOMAIN ToLower THEN ToLower[c] ELSE c

\* the class [~0-9a-zA-Z] of the last REPLACE_CHAR pattern
IsKept(c) == c = "~" \/ c \in Digits \/ c \in Letters

\* the regex class \w, which decides where \b matches
IsWord(c) == c = "_" \/ c \in Digits \/ c \in Letters

RECURSIVE Repeat(_, _)
Repeat(s, n) == IF n = 0 THEN <<>> ELSE s \o Repeat(s, n - 1)

\* REPLACE_CHAR applied in order: ':', '&', '@', '/' become '~', then every
\* character outside [~0-9a-zA-Z] is dropped.
Tilde(c) == IF c \in {":", "&", "@", "/"} THEN "~" ELSE c

REPLACE_CHAR(s) == SelectSeq([i \in DOMAIN s |-> Tilde(s[i])], IsKept)

\* REPLACE_ABBR, before it is compiled
AbbrWords ==
  { <<"s","t","r","e","e","t">>, <<"s","t">>, <<"s","t","s">>,
    <<"c","t","r">>, <<"c","e","n","t","e","r">>, <<"d","r","i","v","e">>,
    <<"d","r">>, <<"a","v","e">>, <<"a","v","e","n","u","e">>, <<"a","v">>,
    <<"b","o","u","l","e","v","a","r","d">>, <<"b","l","v","d">>,
    <<"r","o","a","d">>, <<"r","d">>, <<"a","l","l","e","y">>,
    <<"a","l","y">>, <<"w","a","y">>, <<"p","a","r","k","w","a","y">>,
    <<"p","k","w","y">>, <<"l","a","n","e">>, <<"l","n">>, <<"h","w","y">>,
    <<"c","o","u","r","t">>, <<"c","t">> }

\* the last position of the run of \w characters that starts at i
RECURSIVE RunEnd(_, _)
RunEnd(s, i) == IF i < Len(s) /\ IsWord(s[i + 1]) THEN RunEnd(s, i + 1) ELSE i

\* a run of \w characters, kept unless it is one of the words
KeepWord(w) == IF w \in AbbrWords THEN <<>> ELSE w

\* for a, b in REPLACE_ABBR: s = a.sub(b, s), with a = \bword\b and b = '':
\* each pattern matches a whole maximal run of \w characters and removing a
\* run joins no two others, so the loop removes the runs that are one of the
\* words and keeps everything else.
RECURSIVE SubWords(_, _)
SubWords(s, i) ==
  IF i > Len(s) THEN <<>>
  ELSE IF IsWord(s[i])
  THEN KeepWord(SubSeq(s, i, RunEnd(s, i))) \o SubWords(s, RunEnd(s, i) + 1)
  ELSE <<s[i]>> \o SubWords(s, i + 1)

REPLACE_ABBR(s) == SubWords(s, 1)

LowerStr(s) == [i \in DOMAIN s |-> Lower(s[i])]

\* OnestopEntity.mangle, and OnestopStop.mangle for a stop
mangle(type, s) ==
  IF type = "s" THEN REPLACE_CHAR(REPLACE_ABBR(LowerStr(s)))
  ELSE REPLACE_CHAR(LowerStr(s))

---------------------------------------------------------------------------
(* Geometry and geohashes.  A point is written as the characters of its    *)
(* geohash cell at full precision, which is what mzgeohash.encode returns. *)

StopGeohashLen == 10

PA1 == <<"9","q","s","b","0","0","0","0","0","0","0","1">>
PA2 == <<"9","q","s","b","0","0","0","0","0","0","0","2">>
PB  == <<"9","q","s","c","0","0","0","0","0","0","0","0">>

NoGeometry == [isNone |-> TRUE, coordinates |-> <<>>]   \* geometry=None
NoCoords   == [isNone |-> FALSE, coordinates |-> <<>>]  \* {'coordinates': None}
PointAt(p) == [isNone |-> FALSE, coordinates |-> p]

encode(point) == point

RECURSIVE CommonPrefix(_, _)
CommonPrefix(ps, n) ==
  IF /\ \A p \in ps : Len(p) > n
     /\ \A p, q \in ps : p[n + 1] = q[n + 1]
  THEN CommonPrefix(ps, n + 1)
  ELSE n

\* mzgeohash.neighborsfit(centroid, points): the cell around the centroid
\* that fits the points, here the longest prefix their cells share.
neighborsfit(points) ==
  LET p == CHOOSE p \in points : TRUE
  IN  SubSeq(encode(p), 1, CommonPrefix({encode(q) : q \in points}, 0))

Ok(v)    == [err |-> "ok", val |-> v]
Raise(e) == [err |-> e, val |-> <<>>]

\* OnestopStop.point: geometry()['coordinates'], a TypeError on geometry None
point(h, s) ==
  IF h[s].geometry.isNone THEN Raise("TypeError")
  ELSE Ok(h[s].geometry.coordinates)

\* geohash_features, lines 58-61, on the points that are not empty
fit(points) ==
  IF points = {} THEN Raise("OnestopNoPoints") ELSE Ok(neighborsfit(points))

\* geohash_features(features)
geohash_features(h, features) ==
  IF \E f \in features : point(h, f).err # "ok" THEN Raise("TypeError")
  ELSE fit({point(h, f).val : f \in features} \ {<<>>})

---------------------------------------------------------------------------
(* Entities *)

\* OnestopEntity.__init__
Entity(type, name, geometry, onestop, identifiers) ==
  [type |-> type, name |-> name, geometry |-> geometry, onestop |-> onestop,
   identifiers |-> identifiers, parents |-> {}, children |-> {}]

\* pclink that forgets the child's side of the edge
pclink_oneWay(h, parent, child) ==
  [h EXCEPT ![parent].children = @ \cup {child}]

\* OnestopEntity.pclink
pclink(h, parent, child) ==
  [h EXCEPT ![parent].children = @ \cup {child},
            ![child].parents = @ \cup {parent}]

\* OnestopRoute.stops, OnestopOperator.routes, OnestopFeed.operators
RouteStops(h, r) == h[r].children
OperatorRoutes(h, o) == h[o].children
FeedOperators(h, f) == h[f].children

\* OnestopOperator.stops
OperatorStops(h, o) == UNION {RouteStops(h, i) : i \in OperatorRoutes(h, o)}

\* OnestopFeed.stops, OnestopFeed.routes
FeedStops(h, f) == UNION {OperatorStops(h, i) : i \in FeedOperators(h, f)}
FeedRoutes(h, f) == UNION {OperatorRoutes(h, i) : i \in FeedOperators(h, f)}

\* OnestopRoute.agencies, OnestopStop.agencies
RouteAgencies(h, r) == h[r].parents
StopAgencies(h, s) == UNION {h[i].parents : i \in h[s].parents}

\* stops() of a feed, operator or route
StopsOf(h, e) ==
  CASE h[e].type = "f" -> FeedStops(h, e)
    [] h[e].type = "o" -> OperatorStops(h, e)
    [] OTHER -> RouteStops(h, e)

Min(a, b) == IF a < b THEN a ELSE b

\* OnestopStop.geohash on the outcome of point()
stop_geohash(p) ==
  IF p.err # "ok" \/ p.val = <<>> THEN Raise("TypeError")
  ELSE Ok(SubSeq(encode(p.val), 1, Min(StopGeohashLen, Len(encode(p.val)))))

\* geohash() of each class
geohash(h, e) ==
  IF h[e].type = "s" THEN stop_geohash(point(h, e))
  ELSE geohash_features(h, StopsOf(h, e))

\* '%s-%s-%s' % (onestop_type, geohash, mangled name)
Format(type, g, m) == <<type, "-">> \o g \o <<"-">> \o m

\* onestop, lines 157-162: self._onestop = id; return it
memoize(h, e, id) ==
  [heap |-> [h EXCEPT ![e].onestop = id], err |-> "ok", val |-> id]

\* onestop, lines 157-161, given the outcome g of self.geohash()
assemble(h, e, g) ==
  IF g.err # "ok" THEN [heap |-> h, err |-> g.err, val |-> <<>>]
  ELSE memoize(h, e, Format(h[e].type, g.val, mangle(h[e].type, h[e].name)))

\* OnestopEntity.onestop(cache): the heap afterwards, the outcome, the value
onestop(h, e, cache) ==
  IF cache /\ h[e].onestop # <<>>
  THEN [heap |-> h, err |-> "ok", val |-> h[e].onestop]
  ELSE assemble(h, e, geohash(h, e))

\* add_identifier whose membership test misses the first entry
add_identifier_skipFirst(h, e, identifier, tags) ==
  IF \E k \in DOMAIN h[e].identifiers :
       k > 1 /\ h[e].identifiers[k].identifier = identifier
  THEN [heap |-> h, err |-> "OnestopExistingIdentifier"]
  ELSE [heap |-> [h EXCEPT ![e].identifiers =
                    Append(@, [identifier |-> identifier, tags |-> tags])],
        err |-> "ok"]

\* OnestopEntity.add_identifier
add_identifier(h, e, identifier, tags) ==
  IF \E k \in DOMAIN h[e].identifiers : h[e].identifiers[k].identifier = identifier
  THEN [heap |-> h, err |-> "OnestopExistingIdentifier"]
  ELSE [heap |-> [h EXCEPT ![e].identifiers =
                    Append(@, [identifier |-> identifier, tags |-> tags])],
        err |-> "ok"]

\* OnestopEntity.merge: the loop over item.identifiers, from its k-th entry
RECURSIVE mergeFrom(_, _, _, _)
mergeFrom(h, e, item, k) ==
  IF k > Len(h[item].identifiers) THEN [heap |-> h, err |-> "ok"]
  ELSE LET i == h[item].identifiers[k]
           r == add_identifier(h, e, i.identifier, i.tags)
       IN  IF r.err # "ok" THEN r ELSE mergeFrom(r.heap, e, item, k + 1)

merge(h, e, item) == mergeFrom(h, e, item, 1)

---------------------------------------------------------------------------
(* The runs.  pc = "graph": a caller links entities and reads their ids.   *)
(* pc = "prov": a caller records provenance.  Otherwise the run is         *)
(* OnestopFeed.from_gtfs on a feed of one agency, followed by              *)
(* OnestopOperator.json and OnestopOperator.from_json on its output.       *)

NameRepeat == 10
MaxRoutes == 3

TestName == <<"t","e","s","t">>
LongName == Repeat(<<"m","a","x","i","m","u","m","l","e","n","g","t","h">>, NameRepeat)
DemoName == <<"D","e","m","o"," ","T","r","a","n","s","i","t">>
MainSt == <<"M","a","i","n"," ","S","t">>
Main == <<"M","a","i","n">>
Oak == <<"O","a","k">>
RouteNames == { <<"A">>, <<"A","~","1">> }

Feed == 1
Agency == 2

NoId == <<"", 0>>
NoCall == [op |-> "none", obj |-> 0, arg |-> 0, id |-> NoId, err |-> "ok"]
Call(op, obj, arg, id, err) ==
  [op |-> op, obj |-> obj, arg |-> arg, id |-> id, err |-> err]

EmptyDict == [k \in {} |-> 0]
EmptyDoc == [name |-> <<>>, identifiers |-> <<>>, onestopId |-> <<>>,
             serves |-> {}, features |-> <<>>]

Idle ==
  /\ gtfs_stops = <<>> /\ gtfs_routes = <<>>
  /\ stops = EmptyDict /\ routes = EmptyDict
  /\ route_counter = 0 /\ doc = EmptyDoc /\ rebuilt = 0
  /\ ret = NoCall

\* a feed, an operator, a route and two stops, constructed and not yet linked
InitGraph ==
  /\ pc = "graph"
  /\ \E fname \in {TestName, LongName}, g \in {NoGeometry, NoCoords, PointAt(PB)} :
       heap = << Entity("f", fname, NoGeometry, <<>>, <<>>),
                 Entity("o", DemoName, NoGeometry, <<>>, <<>>),
                 Entity("r", <<"A">>, NoGeometry, <<>>, <<>>),
                 Entity("s", MainSt, PointAt(PA1), <<>>, <<>>),
                 Entity("s", Oak, g, <<>>, <<>>) >>
  /\ Idle

\* two entities with empty provenance lists
InitProv ==
  /\ pc = "prov"
  /\ heap = << Entity("s", MainSt, PointAt(PA1), <<>>, <<>>),
               Entity("s", Main, PointAt(PA2), <<>>, <<>>) >>
  /\ Idle

\* OnestopFeed.from_gtfs has constructed the feed
InitGtfs ==
  /\ pc = "agency"
  /\ heap = << Entity("f", TestName, NoGeometry, <<>>, <<>>) >>
  /\ Idle

Init == InitGraph \/ InitProv \/ InitGtfs

Level(t) == CASE t = "f" -> 0 [] t = "o" -> 1 [] t = "r" -> 2 [] OTHER -> 3

Frame == UNCHANGED <<pc, gtfs_stops, gtfs_routes, stops, routes,
                     route_counter, doc, rebuilt>>

\* the state after a call: the heap it left and what it returned or raised
Returns(r, op, obj, arg, id) ==
  /\ heap' = r.heap
  /\ ret' = Call(op, obj, arg, id, r.err)

\* a caller's pclink(parent, child): the call sites link a feed to an
\* operator, an operator to a route and a route to a stop
Link ==
  /\ pc = "graph"
  /\ \E p, c \in DOMAIN heap :
       /\ Level(heap[c].type) = Level(heap[p].type) + 1
       /\ heap' = pclink(heap, p, c)
       /\ ret' = Call("pclink", p, c, NoId, "ok")
  /\ Frame

\* a caller's onestop()
Onestop ==
  /\ pc = "graph"
  /\ \E e \in DOMAIN heap : Returns(onestop(heap, e, TRUE), "onestop", e, 0, NoId)
  /\ Frame

RawIds == { <<"x", 1>>, <<"y", 1>>, <<"z", 1>> }

\* a caller's add_identifier(identifier, tags)
AddIdentifier ==
  /\ pc = "prov"
  /\ \E e \in DOMAIN heap, identifier \in RawIds :
       Returns(add_identifier(heap, e, identifier, "tags"),
               "add_identifier", e, 0, identifier)
  /\ Frame

\* a caller's merge(item)
Merge ==
  /\ pc = "prov"
  /\ \E e, item \in DOMAIN heap :
       Returns(merge(heap, e, item), "merge", e, item, NoId)
  /\ Frame

---------------------------------------------------------------------------
(* OnestopFeed.from_gtfs and OnestopOperator.from_gtfs *)

DigitChars == <<"0","1","2","3","4","5","6","7","8","9">>

\* '%s' % n for a natural number n
RECURSIVE IntToStr(_)
IntToStr(n) ==
  IF n < 10 THEN <<DigitChars[n + 1]>>
  ELSE IntToStr(n \div 10) \o <<DigitChars[(n % 10) + 1]>>

\* the raw stop records a reader can yield: distinct stop_ids; the first two
\* lie in the same 10-character cell and mangle to the same name
StopRecords ==
  { [name |-> MainSt, point |-> PA1, id |-> <<"stop", 1>>],
    [name |-> Main,   point |-> PA2, id |-> <<"stop", 2>>],
    [name |-> Oak,    point |-> PB,  id |-> <<"stop", 3>>] }

\* the stops a raw route record names, among the n stop records read: none,
\* the last one read, or all of them
RouteStopSets(n) == {{}} \cup {{k} : k \in {n} \ {0}} \cup {1..n}

\* d[key] = value
Put(d, key, value) == [k \in DOMAIN d \cup {key} |-> IF k = key THEN value ELSE d[k]]

\* from_gtfs, lines 246-248: the operator and its own identifier
from_gtfs_agency ==
  /\ pc = "agency"
  /\ Returns(add_identifier(Append(heap, Entity("o", DemoName, NoGeometry, <<>>, <<>>)),
                            Agency, <<"agency", 1>>, "data"),
             "from_gtfs", Agency, 0, <<"agency", 1>>)
  /\ pc' = "stops"
  /\ stops' = EmptyDict /\ routes' = EmptyDict /\ route_counter' = 0
  /\ UNCHANGED <<gtfs_stops, gtfs_routes, doc, rebuilt>>

StopOut(h, d, err, stop, parent) ==
  [heap |-> h, stops |-> d, err |-> err, stop |-> stop, parent |-> parent]

\* lines 260-261: i._onestop_parent = stops[key]; stops[key].add_identifier(...)
stop_add(h, d, key, stop, i) ==
  StopOut(add_identifier(h, d[key], i.id, i.name).heap, d,
          add_identifier(h, d[key], i.id, i.name).err, stop, d[key])

\* the stop loop without the test `if key not in stops`
stop_keyed_overwrite(r, d, stop, i) ==
  IF r.err # "ok" THEN StopOut(r.heap, d, r.err, stop, 0)
  ELSE stop_add(r.heap, Put(d, r.val, stop), r.val, stop, i)

\* lines 256-258, given the outcome r of stop.onestop()
stop_keyed(r, d, stop, i) ==
  IF r.err # "ok" THEN StopOut(r.heap, d, r.err, stop, 0)
  ELSE stop_add(r.heap, IF r.val \in DOMAIN d THEN d ELSE Put(d, r.val, stop),
                r.val, stop, i)

\* lines 252-256, on the heap h1 that holds the new stop
stop_new(h1, d, i) == stop_keyed(onestop(h1, Len(h1), TRUE), d, Len(h1), i)

\* from_gtfs, lines 251-261: one pass of the loop over gtfs_agency.stops()
stop_step(h, d, i) ==
  stop_new(Append(h, Entity("s", i.name, PointAt(i.point), <<>>, <<>>)), d, i)

StopDone(r, i) ==
  /\ heap' = r.heap
  /\ stops' = r.stops
  /\ gtfs_stops' = Append(gtfs_stops,
       [name |-> i.name, point |-> i.point, id |-> i.id,
        stop |-> r.stop, onestop_parent |-> r.parent])
  /\ ret' = Call("from_gtfs_stop", r.stop, r.parent, i.id, r.err)
  /\ pc' = IF r.err = "ok" THEN "stops" ELSE "failed"

from_gtfs_stop ==
  /\ pc = "stops"
  /\ \E i \in StopRecords :
       /\ \A k \in DOMAIN gtfs_stops : gtfs_stops[k].id # i.id
       /\ StopDone(stop_step(heap, stops, i), i)
  /\ UNCHANGED <<gtfs_routes, routes, route_counter, doc, rebuilt>>

\* for j in i.stops(): route.pclink(route, j._onestop_parent)
RECURSIVE pclinkAll(_, _, _)
pclinkAll(h, parent, cs) ==
  IF cs = {} THEN h
  ELSE LET c == CHOOSE c \in cs : TRUE
       IN  pclinkAll(pclink(h, parent, c), parent, cs \ {c})

\* the collision branch without `route._onestop = None`
rename_keepCache(h, route, counter) ==
  [h EXCEPT ![route].name = @ \o <<"~">> \o IntToStr(counter)]

\* the collision branch, lines 279-281: rename and drop the cached id
rename(h, route, counter) ==
  [h EXCEPT ![route].name = @ \o <<"~">> \o IntToStr(counter),
            ![route].onestop = <<>>]

RouteOut(h, d, counter, err, route, key) ==
  [heap |-> h, routes |-> d, route_counter |-> counter, err |-> err,
   route |-> route, key |-> key]

\* line 287, given the outcome a of route.add_identifier
route_put(a, key, route, d, counter) ==
  IF a.err # "ok" THEN RouteOut(a.heap, d, counter, a.err, route, key)
  ELSE RouteOut(a.heap, Put(d, key, route), counter, "ok", route, key)

\* lines 285-286: link the route to the operator, record its raw identifier
route_link(h, key, route, d, counter, name, rawid) ==
  route_put(add_identifier(pclink(h, Agency, route), route, rawid, name),
            key, route, d, counter)

\* lines 282-284, given the outcome r2 of the second route.onestop():
\* assert key not in routes
route_retry(r2, route, d, counter, name, rawid) ==
  IF r2.err # "ok" THEN RouteOut(r2.heap, d, counter, r2.err, route, <<>>)
  ELSE IF r2.val \in DOMAIN d
  THEN RouteOut(r2.heap, d, counter, "AssertionError", route, r2.val)
  ELSE route_link(r2.heap, r2.val, route, d, counter, name, rawid)

\* lines 274-282, given the outcome r1 of the first route.onestop()
route_keyed(r1, route, d, counter, name, rawid) ==
  IF r1.err # "ok" THEN RouteOut(r1.heap, d, counter, r1.err, route, <<>>)
  ELSE IF r1.val \in DOMAIN d
  THEN route_retry(onestop(rename(r1.heap, route, counter + 1), route, TRUE),
                   route, d, counter + 1, name, rawid)
  ELSE route_link(r1.heap, r1.val, route, d, counter, name, rawid)

\* the route loop with the operator link made before the test for stops
route_new_linkFirst(h1, d, counter, name, ss, rawid) ==
  IF ss = {} THEN RouteOut(pclink(h1, Agency, Len(h1)), d, counter, "skipped", Len(h1), <<>>)
  ELSE route_keyed(
         onestop(pclinkAll(h1, Len(h1), {gtfs_stops[j].onestop_parent : j \in ss}),
                 Len(h1), TRUE),
         Len(h1), d, counter, name, rawid)

\* lines 269-274, on the heap h1 that holds the new route
route_new(h1, d, counter, name, ss, rawid) ==
  IF ss = {} THEN RouteOut(h1, d, counter, "skipped", Len(h1), <<>>)
  ELSE route_keyed(
         onestop(pclinkAll(h1, Len(h1), {gtfs_stops[j].onestop_parent : j \in ss}),
                 Len(h1), TRUE),
         Len(h1), d, counter, name, rawid)

\* from_gtfs, lines 264-287: one pass of the loop over gtfs_agency.routes()
route_step(h, d, counter, name, ss, rawid) ==
  route_new(Append(h, Entity("r", name, NoGeometry, <<>>, <<>>)),
            d, counter, name, ss, rawid)

RouteDone(r, name, ss, rawid) ==
  /\ heap' = r.heap
  /\ routes' = r.routes
  /\ route_counter' = r.route_counter
  /\ gtfs_routes' = Append(gtfs_routes,
       [name |-> name, stops |-> ss, id |-> rawid, route |-> r.route,
        key |-> r.key, err |-> r.err])
  /\ ret' = Call("from_gtfs_route", r.route, 0, rawid, r.err)
  /\ pc' = IF r.err \in {"ok", "skipped"} THEN "routes" ELSE "failed"

from_gtfs_route ==
  /\ pc \in {"stops", "routes"}
  /\ Len(gtfs_routes) < MaxRoutes
  /\ \E name \in RouteNames, ss \in RouteStopSets(Len(gtfs_stops)) :
       RouteDone(route_step(heap, routes, route_counter, name, ss,
                            <<"route", Len(gtfs_routes) + 1>>),
                 name, ss, <<"route", Len(gtfs_routes) + 1>>)
  /\ UNCHANGED <<gtfs_stops, stops, doc, rebuilt>>

\* from_gtfs returns the operator (line 289) and OnestopFeed.from_gtfs links
\* it to the feed (lines 208-209)
from_gtfs_return ==
  /\ pc \in {"stops", "routes"}
  /\ heap' = pclink(heap, Feed, Agency)
  /\ pc' = "done"
  /\ ret' = Call("from_gtfs", Feed, Agency, NoId, "ok")
  /\ UNCHANGED <<gtfs_stops, gtfs_routes, stops, routes, route_counter, doc, rebuilt>>

---------------------------------------------------------------------------
(* OnestopOperator.json and OnestopOperator.from_json *)

Pick(es) == CHOOSE e \in es : TRUE

\* i.onestop() for every i of a set, in turn
RECURSIVE onestopAll(_, _)
onestopAll(h, es) ==
  IF es = {} THEN [heap |-> h, err |-> "ok"]
  ELSE LET r == onestop(h, Pick(es), TRUE)
       IN  IF r.err # "ok" THEN [heap |-> r.heap, err |-> r.err]
           ELSE onestopAll(r.heap, es \ {Pick(es)})

Ids(h, es) == {h[e].onestop : e \in es}

\* OnestopRoute.json without the stops the route serves
RouteJson_noServes(h, r) ==
  [onestopId |-> h[r].onestop, name |-> h[r].name, geometry |-> h[r].geometry,
   identifiers |-> h[r].identifiers,
   operatedBy |-> h[Pick(RouteAgencies(h, r))].onestop,
   serves |-> {}]

\* OnestopRoute.json, once every id it reads is cached
RouteJson(h, r) ==
  [onestopId |-> h[r].onestop, name |-> h[r].name, geometry |-> h[r].geometry,
   identifiers |-> h[r].identifiers,
   operatedBy |-> h[Pick(RouteAgencies(h, r))].onestop,
   serves |-> Ids(h, RouteStops(h, r))]

\* OnestopStop.json; servedBy is kept in the field serves
StopJson(h, s) ==
  [onestopId |-> h[s].onestop, name |-> h[s].name, geometry |-> h[s].geometry,
   identifiers |-> h[s].identifiers,
   operatedBy |-> <<>>,
   serves |-> Ids(h, StopAgencies(h, s))]

FeatureJson(h, e) == IF h[e].type = "r" THEN RouteJson(h, e) ELSE StopJson(h, e)

\* a set of entities as a list, in the order of construction
RECURSIVE ListOf(_)
ListOf(es) ==
  IF es = {} THEN <<>>
  ELSE LET e == CHOOSE e \in es : \A x \in es : e <= x
       IN  <<e>> \o ListOf(es \ {e})

JsonOut(h, err, d) == [heap |-> h, err |-> err, doc |-> d]

\* OnestopOperator.json, lines 317-326, once every id it reads is cached
OperatorDoc(h, o, l) ==
  [name |-> h[o].name,
   identifiers |-> h[o].identifiers,
   onestopId |-> h[o].onestop,
   serves |-> Ids(h, OperatorStops(h, o)),
   features |-> [k \in DOMAIN l |-> FeatureJson(h, l[k])]]

\* lines 324-325, given the outcome r of reading the features' ids
json_features(r, o) ==
  IF r.err # "ok" THEN JsonOut(r.heap, r.err, EmptyDoc)
  ELSE IF \E e \in OperatorRoutes(r.heap, o) : RouteAgencies(r.heap, e) = {}
  THEN JsonOut(r.heap, "IndexError", EmptyDoc)
  ELSE JsonOut(r.heap, "ok",
               OperatorDoc(r.heap, o,
                 ListOf(OperatorRoutes(r.heap, o) \cup OperatorStops(r.heap, o))))

\* line 323, given the outcome r of self.onestop()
json_id(r, o) ==
  IF r.err # "ok" THEN JsonOut(r.heap, r.err, EmptyDoc)
  ELSE json_features(
         onestopAll(r.heap, OperatorRoutes(r.heap, o) \cup OperatorStops(r.heap, o)), o)

\* OnestopOperator.json: the heap afterwards (ids are memoized), the outcome
\* and the document
OperatorJson(h, o) == json_id(onestop(h, o, TRUE), o)

JsonDone(r) ==
  /\ heap' = r.heap
  /\ doc' = r.doc
  /\ ret' = Call("json", Agency, 0, NoId, r.err)
  /\ pc' = IF r.err = "ok" THEN "json" ELSE "failed"

json ==
  /\ pc = "done"
  /\ JsonDone(OperatorJson(heap, Agency))
  /\ UNCHANGED <<gtfs_stops, gtfs_routes, stops, routes, route_counter, rebuilt>>

\* cls(**feature): name, geometry, onestopId and identifiers are taken
FromFeature(type, f) == Entity(type, f.name, f.geometry, f.onestopId, f.identifiers)

\* from_json, lines 298-302: the stops, from the k-th feature on
RECURSIVE json_stops(_, _, _, _)
json_stops(h, d, fs, k) ==
  IF k > Len(fs) THEN [heap |-> h, stops |-> d, err |-> "ok"]
  ELSE IF fs[k].onestopId # <<>> /\ fs[k].onestopId[1] = "s"
  THEN LET r == onestop(Append(h, FromFeature("s", fs[k])), Len(h) + 1, TRUE)
       IN  IF r.err # "ok" THEN [heap |-> r.heap, stops |-> d, err |-> r.err]
           ELSE json_stops(r.heap, Put(d, r.val, Len(h) + 1), fs, k + 1)
  ELSE json_stops(h, d, fs, k + 1)

\* from_json, lines 304-310: the routes, from the k-th feature on
RECURSIVE json_routes(_, _, _, _, _)
json_routes(h, d, agency, fs, k) ==
  IF k > Len(fs) THEN [heap |-> h, err |-> "ok"]
  ELSE IF fs[k].onestopId # <<>> /\ fs[k].onestopId[1] = "r"
  THEN IF \E id \in fs[k].serves : id \notin DOMAIN d
       THEN [heap |-> h, err |-> "KeyError"]
       ELSE json_routes(
              pclink(pclinkAll(Append(h, FromFeature("r", fs[k])), Len(h) + 1,
                               {d[id] : id \in fs[k].serves}),
                     agency, Len(h) + 1),
              d, agency, fs, k + 1)
  ELSE json_routes(h, d, agency, fs, k + 1)

FromJsonOut(r, agency) == [heap |-> r.heap, err |-> r.err, agency |-> agency]

\* from_json, lines 303-311, given the outcome s of the pass over the stops
from_json_routes(s, agency, data) ==
  IF s.err # "ok" THEN FromJsonOut(s, agency)
  ELSE FromJsonOut(json_routes(s.heap, s.stops, agency, data.features, 1), agency)

\* OnestopOperator.from_json on a document
OperatorFromJson(h, data) ==
  from_json_routes(
    json_stops(Append(h, Entity("o", data.name, NoGeometry, data.onestopId,
                                data.identifiers)),
               EmptyDict, data.features, 1),
    Len(h) + 1, data)

FromJsonDone(r) ==
  /\ heap' = r.heap
  /\ rebuilt' = r.agency
  /\ ret' = Call("from_json", r.agency, 0, NoId, r.err)
  /\ pc' = IF r.err = "ok" THEN "rebuilt" ELSE "failed"

from_json ==
  /\ pc = "json"
  /\ FromJsonDone(OperatorFromJson(heap, doc))
  /\ UNCHANGED <<gtfs_stops, gtfs_routes, stops, routes, route_counter, doc>>

Next ==
  \/ Link \/ Onestop \/ AddIdentifier \/ Merge
  \/ from_gtfs_agency \/ from_gtfs_stop \/ from_gtfs_route \/ from_gtfs_return
  \/ json \/ from_json

Spec == Init /\ [][Next]_vars

---------------------------------------------------------------------------
(* Properties *)

\* util.ONESTOP_LENGTH is defined outside the files at hand; test_onestop_maxlen
\* asserts len('maximumlength' * 10) > util.ONESTOP_LENGTH, so the constant is
\* at most the value below, and a bound that fails for it fails for the
\* constant itself.
ONESTOP_LENGTH == Len(LongName) - 1

\* OnestopOperator.from_gtfs has constructed the operator
InGtfs == pc \notin {"graph", "prov", "agency"}

\* OnestopOperator.from_gtfs has returned
Returned == pc \in {"done", "json", "rebuilt"}
            \/ (pc = "failed" /\ ret.op \in {"json", "from_json"})

\* OnestopOperator.from_gtfs has raised
GtfsFailed == pc = "failed" /\ ret.op \in {"from_gtfs_stop", "from_gtfs_route"}

RawIdsOf(l) == [k \in DOMAIN l |-> l[k].identifier]
Unique(l) == \A j, k \in DOMAIN l : l[j].identifier = l[k].identifier => j = k
Overlap(l, m) == \E j \in DOMAIN l, k \in DOMAIN m : l[j].identifier = m[k].identifier

\* C1: merge(A, B) is atomic: when B's list holds a raw identifier that A
\* already records, the merge raises the duplicate-provenance error and A's
\* list is what it was before the call; when the raw identifiers are disjoint,
\* A's list afterwards is its old list followed by B's entries.
C1_MergeStep ==
  (pc = "prov" /\ ret'.op = "merge") =>
    IF Overlap(heap[ret'.obj].identifiers, heap[ret'.arg].identifiers)
    THEN /\ ret'.err = "OnestopExistingIdentifier"
         /\ heap'[ret'.obj].identifiers = heap[ret'.obj].identifiers
    ELSE /\ ret'.err = "ok"
         /\ heap'[ret'.obj].identifiers =
              heap[ret'.obj].identifiers \o heap[ret'.arg].identifiers

C1_MergeAtomic == [][C1_MergeStep]_vars

\* C2: every identifier onestop() returns is at most ONESTOP_LENGTH
\* characters long and keeps its '{type}-' prefix.
C2_LengthBound ==
  (pc = "graph" /\ ret.op = "onestop" /\ ret.err = "ok") =>
    /\ Len(heap[ret.obj].onestop) <= ONESTOP_LENGTH
    /\ SubSeq(heap[ret.obj].onestop, 1, 2) = <<heap[ret.obj].type, "-">>

\* C3: when every route record read has at least one stop, ingestion has not
\* failed, every record has its own route linked to the operator, and the
\* routes' ids are pairwise distinct.
C3_AllRoutesIngested ==
  (InGtfs /\ \A k \in DOMAIN gtfs_routes : gtfs_routes[k].stops # {}) =>
    /\ ~GtfsFailed
    /\ \A k \in DOMAIN gtfs_routes :
         gtfs_routes[k].route \in OperatorRoutes(heap, Agency)
    /\ \A j, k \in DOMAIN gtfs_routes :
         heap[gtfs_routes[j].route].onestop = heap[gtfs_routes[k].route].onestop
           => j = k

\* the id of an entity computed with the cache bypassed
Recomputed(e) == onestop(heap, e, FALSE)

\* C4: after from_json(json()) the rebuilt operator, routes and stops carry
\* the ids of the originals (also when recomputed), the operator has as many
\* routes and stops with the same sets of ids, each route serves the same
\* stop ids and each stop has as many agencies as before.
C4_RoundTrip ==
  pc = "rebuilt" =>
    /\ heap[rebuilt].onestop = heap[Agency].onestop
    /\ Recomputed(rebuilt).val = heap[Agency].onestop
    /\ Cardinality(OperatorRoutes(heap, rebuilt)) = Cardinality(OperatorRoutes(heap, Agency))
    /\ Cardinality(OperatorStops(heap, rebuilt)) = Cardinality(OperatorStops(heap, Agency))
    /\ Ids(heap, OperatorRoutes(heap, rebuilt)) = Ids(heap, OperatorRoutes(heap, Agency))
    /\ Ids(heap, OperatorStops(heap, rebuilt)) = Ids(heap, OperatorStops(heap, Agency))
    /\ Cardinality(Ids(heap, OperatorRoutes(heap, rebuilt))) = Cardinality(OperatorRoutes(heap, Agency))
    /\ Cardinality(Ids(heap, OperatorStops(heap, rebuilt))) = Cardinality(OperatorStops(heap, Agency))
    /\ \A r \in OperatorRoutes(heap, Agency) :
         \E q \in OperatorRoutes(heap, rebuilt) :
           /\ heap[q].onestop = heap[r].onestop
           /\ Recomputed(q).val = heap[r].onestop
           /\ Ids(heap, RouteStops(heap, q)) = Ids(heap, RouteStops(heap, r))
    /\ \A s \in OperatorStops(heap, Agency) :
         \E q \in OperatorStops(heap, rebuilt) :
           /\ heap[q].onestop = heap[s].onestop
           /\ Recomputed(q).val = heap[s].onestop
           /\ Cardinality(StopAgencies(heap, q)) = Cardinality(StopAgencies(heap, s))

C4_Witness ==
  /\ pc = "rebuilt"
  /\ Cardinality(OperatorRoutes(heap, rebuilt)) >= 2
  /\ Cardinality(OperatorStops(heap, rebuilt)) >= 2
  /\ route_counter > 0
  /\ \E q, r \in OperatorRoutes(heap, rebuilt) : RouteStops(heap, q) # RouteStops(heap, r)

\* the id each raw stop record resolves to
StopRecordId ==
  [i \in StopRecords |->
     Format("s", stop_geohash(Ok(i.point)).val, mangle("s", i.name))]

RecordId(g) == StopRecordId[[name |-> g.name, point |-> g.point, id |-> g.id]]

\* the records read so far that resolve to the id key, in the order read
RECURSIVE RawIdsFor(_, _)
RawIdsFor(key, k) ==
  IF k > Len(gtfs_stops) THEN <<>>
  ELSE (IF RecordId(gtfs_stops[k]) = key THEN <<gtfs_stops[k].id>> ELSE <<>>)
       \o RawIdsFor(key, k + 1)

\* C5: during ingestion there is one stop entity per computed id, the one
\* made for the first record with that id; every raw record is mapped to the
\* entity that carries its id; the entity's provenance list is the raw
\* identifiers of the records with its id, in the order read; the routes link
\* these shared entities, so no two stops of the operator have the same id.
C5_StopDedup ==
  InGtfs =>
    /\ DOMAIN stops = {RecordId(gtfs_stops[k]) : k \in DOMAIN gtfs_stops}
    /\ \A key \in DOMAIN stops :
         /\ heap[stops[key]].onestop = key
         /\ \E k \in DOMAIN gtfs_stops :
              /\ gtfs_stops[k].stop = stops[key]
              /\ \A j \in 1..(k - 1) : RecordId(gtfs_stops[j]) # key
         /\ RawIdsOf(heap[stops[key]].identifiers) = RawIdsFor(key, 1)
    /\ \A k \in DOMAIN gtfs_stops :
         /\ gtfs_stops[k].onestop_parent = stops[RecordId(gtfs_stops[k])]
         /\ heap[gtfs_stops[k].onestop_parent].onestop = RecordId(gtfs_stops[k])
    /\ \A k \in DOMAIN gtfs_routes :
         RouteStops(heap, gtfs_routes[k].route) =
           {gtfs_stops[j].onestop_parent : j \in gtfs_routes[k].stops}
    /\ \A s, t \in OperatorStops(heap, Agency) :
         heap[s].onestop = heap[t].onestop => s = t

C5_Witness ==
  /\ pc = "done"
  /\ Len(gtfs_stops) = 3
  /\ Cardinality(DOMAIN stops) = 2
  /\ \E key \in DOMAIN stops : Len(heap[stops[key]].identifiers) = 2
  /\ \E k \in DOMAIN gtfs_routes :
       /\ gtfs_routes[k].stops = {1, 2, 3}
       /\ Cardinality(RouteStops(heap, gtfs_routes[k].route)) = 2

\* an add_identifier call with a raw identifier the entity already records
\* raises the duplicate-provenance error and leaves the list as it was
C6_AddStep ==
  (pc = "prov" /\ ret'.op = "add_identifier"
     /\ \E k \in DOMAIN heap[ret'.obj].identifiers :
          heap[ret'.obj].identifiers[k].identifier = ret'.id) =>
    /\ ret'.err = "OnestopExistingIdentifier"
    /\ heap'[ret'.obj].identifiers = heap[ret'.obj].identifiers

\* C6: after any sequence of add_identifier and merge calls (and in every
\* state of ingestion and deserialization) no two entries of an entity's
\* provenance list have the same raw identifier, and a duplicate
\* add_identifier is rejected without changing the list.
C6_UniqueProvenance ==
  /\ [](\A e \in DOMAIN heap : Unique(heap[e].identifiers))
  /\ [][C6_AddStep]_vars

C6_Witness ==
  /\ pc = "prov"
  /\ ret.op = "add_identifier" /\ ret.err = "OnestopExistingIdentifier"
  /\ Len(heap[ret.obj].identifiers) = 3
  /\ Len(heap[3 - ret.obj].identifiers) >= 2

\* C7: a route record with no stops is skipped before any link is made: its
\* route is no child of the operator, no parent of a stop and is registered
\* under no id; once from_gtfs has returned, every other route record of the
\* input has its route linked to the operator.
C7_NoStopsSkipped ==
  InGtfs =>
    /\ \A k \in DOMAIN gtfs_routes :
         gtfs_routes[k].stops = {} =>
           /\ gtfs_routes[k].err = "skipped"
           /\ gtfs_routes[k].route \notin OperatorRoutes(heap, Agency)
           /\ heap[gtfs_routes[k].route].parents = {}
           /\ heap[gtfs_routes[k].route].children = {}
           /\ \A e \in DOMAIN heap : gtfs_routes[k].route \notin heap[e].parents
           /\ \A key \in DOMAIN routes : routes[key] # gtfs_routes[k].route
    /\ Returned =>
         /\ \A k \in DOMAIN gtfs_routes :
              gtfs_routes[k].stops # {} =>
                /\ gtfs_routes[k].route \in OperatorRoutes(heap, Agency)
                /\ routes[gtfs_routes[k].key] = gtfs_routes[k].route
         /\ Cardinality(OperatorRoutes(heap, Agency)) =
              Cardinality({k \in DOMAIN gtfs_routes : gtfs_routes[k].stops # {}})

C7_Witness ==
  /\ pc = "done"
  /\ Len(gtfs_routes) = 3
  /\ gtfs_routes[1].stops # {} /\ gtfs_routes[2].stops = {} /\ gtfs_routes[3].stops # {}
  /\ Cardinality(OperatorRoutes(heap, Agency)) = 2

\* no stop the entity reaches has a point
NoPoints(h, e) ==
  \A s \in StopsOf(h, e) : h[s].geometry.isNone \/ h[s].geometry.coordinates = <<>>

\* C8: onestop() on a feed, operator or route with no cached id, none of
\* whose reachable stops has a point, raises the no-points error and leaves
\* the cached id unset.
C8_Step ==
  (pc = "graph" /\ ret'.op = "onestop"
     /\ heap[ret'.obj].type \in {"f", "o", "r"}
     /\ heap[ret'.obj].onestop = <<>>
     /\ NoPoints(heap, ret'.obj)) =>
    /\ ret'.err = "OnestopNoPoints"
    /\ heap'[ret'.obj].onestop = <<>>

C8_NoPointsError == [][C8_Step]_vars

\* C9: c is a child of p exactly when p is a parent of c, and a stop is among
\* an operator's stops() exactly when the operator is among the stop's
\* agencies().
C9_EdgeSymmetry ==
  /\ \A p, c \in DOMAIN heap : c \in heap[p].children <=> p \in heap[c].parents
  /\ \A o, s \in DOMAIN heap :
       (heap[o].type = "o" /\ heap[s].type = "s") =>
         (s \in OperatorStops(heap, o) <=> o \in StopAgencies(heap, s))

C9_Witness ==
  /\ pc = "rebuilt"
  /\ Cardinality(OperatorStops(heap, rebuilt)) >= 2
  /\ Cardinality(OperatorRoutes(heap, rebuilt)) >= 2
  /\ \A s \in OperatorStops(heap, rebuilt) : StopAgencies(heap, s) = {rebuilt}
  /\ Agency \in FeedOperators(heap, Feed)

====
